---------------------------- MODULE Spec2Model ----------------------------
(***************************************************************************)
(* Model of the two scripts of the repository:                             *)
(*   src/modelproject/modelproject.py  nullclines, aevaluation, capital     *)
(*   src/dataproject/dataproject.py    figure1, figure2 (recession shading) *)
(*                                                                         *)
(* Floating-point values are modelled as extended rationals <<num, den>>:  *)
(* den > 0 is the finite value num/den in lowest terms, <<1,0>> is +inf,   *)
(* <<-1,0>> is -inf and <<0,0>> is nan.  The operators follow numpy's       *)
(* float64 arithmetic under its default error state (division by zero and  *)
(* invalid operations produce inf/nan and a RuntimeWarning, they do not     *)
(* raise).  Rounding, overflow and the sign of zero are not modelled;        *)
(* exponents are integers, so that every power is an exact rational.        *)
(***************************************************************************)
EXTENDS Integers, Sequences, FiniteSets, TLC

VARIABLES
    globals,    \* module namespace of modelproject.py (lines 7-16)
    locals,     \* local namespace of the running call of capital
    heap,       \* numpy arrays: array id -> sequence of values (index t is t+1)
    pc,         \* position of the running call of capital
    err,        \* exception a call of capital ended with
    iter,       \* next value of the iterator range(1, T)
    wcount,     \* stores executed by the loop body, per array and index
    call,       \* actual arguments of the most recent call of capital
    held,       \* result of the most recent call that returned
    symret,     \* value returned by the last nullclines/aevaluation call
    fig,        \* which figure function runs, and where
    nber,       \* the nber DataFrame: index (dates) and column USREC
    i,          \* loop variable of the recession-shading loop
    spans       \* axvspan calls made so far, in order

vars == <<globals, locals, heap, pc, err, iter, wcount, call, held, symret,
          fig, nber, i, spans>>

capitalVars == <<globals, locals, heap, pc, err, iter, wcount, call, held, symret>>
figureVars == <<fig, nber, i, spans>>

---------------------------------------------------------------------------
(* Bounds of the model *)

MaxT == 3        \* largest horizon T passed to capital
MaxDegree == 2   \* largest alpha + phi passed to capital
MaxDate == 4     \* observation dates of nber are drawn from 1..MaxDate

---------------------------------------------------------------------------
(* float64 arithmetic *)

Abs(x) == IF x < 0 THEN -x ELSE x
Sgn(x) == IF x < 0 THEN -1 ELSE IF x > 0 THEN 1 ELSE 0

RECURSIVE GCD(_, _)
GCD(a, b) == IF b = 0 THEN a ELSE GCD(b, a % b)

Norm(num, den) ==
    IF den = 0 THEN <<Sgn(num), 0>>
    ELSE LET s == Sgn(den)
             d == GCD(Abs(num), Abs(den))
         IN  <<(s * num) \div d, (s * den) \div d>>

Q(num, den) == Norm(num, den)
Zero == <<0, 1>>
One == <<1, 1>>
NaN == <<0, 0>>
PosInf == <<1, 0>>
NegInf == <<-1, 0>>

IsFinite(x) == x[2] # 0
IsNaN(x) == x = NaN
IsInf(x) == x[2] = 0 /\ x[1] # 0

Neg(x) == <<-x[1], x[2]>>

Mul(x, y) == Norm(x[1] * y[1], x[2] * y[2])

Add(x, y) ==
    IF IsNaN(x) \/ IsNaN(y) THEN NaN
    ELSE IF IsInf(x) /\ IsInf(y) THEN (IF x = y THEN x ELSE NaN)
    ELSE IF IsInf(x) THEN x
    ELSE IF IsInf(y) THEN y
    ELSE LET d == GCD(x[2], y[2])
         IN  Norm(x[1] * (y[2] \div d) + y[1] * (x[2] \div d), x[2] * (y[2] \div d))

Sub(x, y) == Add(x, Neg(y))

\* a faulty variant of Div: a zero divisor is replaced by a substituted result 0
DivSubstitutesZero(x, y) ==
    IF y = Zero THEN Zero ELSE Mul(x, Norm(y[2], y[1]))

\* x / y on float64: x/0 is +-inf, 0/0 and inf/inf are nan, x/inf is 0
Div(x, y) == Mul(x, Norm(y[2], y[1]))

\* x ** e for an integer e: x**0 is 1 for every x, 0**e is inf for e < 0
RECURSIVE Pow(_, _)
Pow(x, e) ==
    IF e = 0 THEN One
    ELSE IF e < 0 THEN Div(One, Pow(x, -e))
    ELSE Mul(x, Pow(x, e - 1))

---------------------------------------------------------------------------
(* Python namespaces and numpy arrays *)

NoLocals == [x \in {} |-> Zero]

\* module-level statements, lines 7-16
ModuleNamespace ==
    [x \in {"k", "h", "alpha", "delta", "phi", "s_K", "s_H", "g", "n"} |-> <<"Symbol", x>>]
    @@ ("param" :> <<<<"Symbol", "k">>, <<"Symbol", "h">>, <<"Symbol", "alpha">>,
                     <<"Symbol", "delta">>, <<"Symbol", "phi">>, <<"Symbol", "s_K">>,
                     <<"Symbol", "s_H">>, <<"Symbol", "g">>, <<"Symbol", "n">>>>)

\* name lookup inside a function body: local scope first, then the module
LoadName(gl, lo, name) == IF name \in DOMAIN lo THEN lo[name] ELSE gl[name]

\* binding a name inside a function body (no global statement): local
StoreName(ns, name, v) ==
    [gl |-> ns.gl, lo |-> (name :> v) @@ ns.lo]

\* a faulty variant of Zeros: one element too many
ZerosOneExtra(T) == [x \in 1..(T + 1) |-> Zero]

\* np.zeros(T), T >= 0
Zeros(T) == [x \in 1..T |-> Zero]

\* a faulty variant of FreshId: the array of the previous call is handed out again
FreshIdReuses(hp) == IF DOMAIN hp = {} THEN 1 ELSE CHOOSE a \in DOMAIN hp : TRUE

\* a new array object: an id no live array has
FreshId(hp) == CHOOSE a \in 1..(Cardinality(DOMAIN hp) + 1) : a \notin DOMAIN hp

\* a faulty variant of IndexOK: an out-of-range store is silently dropped
IndexNotChecked(len, idx) == TRUE

\* bounds check of arr[idx] on an array of length len
IndexOK(len, idx) == -len <= idx /\ idx < len

\* position in the sequence of Python index idx (negative counts from the end)
Pos(len, idx) == IF idx < 0 THEN len + idx + 1 ELSE idx + 1

GetItem(arr, idx) == arr[Pos(Len(arr), idx)]

SetItem(arr, idx, v) ==
    IF Pos(Len(arr), idx) \in DOMAIN arr
    THEN [arr EXCEPT ![Pos(Len(arr), idx)] = v]
    ELSE arr

---------------------------------------------------------------------------
(* capital(s_K, s_H, n, delta, alpha, phi, k0, h0, T, g), lines 65-96 *)

Quiescent == {"idle", "returned", "error"}

NoArgs ==
    [s_K |-> Zero, s_H |-> Zero, n |-> Zero, delta |-> Zero, alpha |-> 0,
     phi |-> 0, k0 |-> Zero, h0 |-> Zero, T |-> 0, g |-> Zero]

NoResult == [valid |-> FALSE, args |-> NoArgs, k |-> 0, h |-> 0, kval |-> <<>>, hval |-> <<>>]

NoWrites == [k |-> <<>>, h |-> <<>>]

\* a faulty variant of RangeStart: the loop starts at index 0
RangeStartsAtZero == 1 - 1

\* the first value of range(1, T), line 92
RangeStart == 1

\* the parameters are bound in the frame of the call, line 65
BindParameters(gl, a) ==
    LET n0 == [gl |-> gl, lo |-> NoLocals]
        n1 == StoreName(n0, "s_K", a.s_K)
        n2 == StoreName(n1, "s_H", a.s_H)
        n3 == StoreName(n2, "n", a.n)
        n4 == StoreName(n3, "delta", a.delta)
        n5 == StoreName(n4, "alpha", a.alpha)
        n6 == StoreName(n5, "phi", a.phi)
        n7 == StoreName(n6, "k0", a.k0)
        n8 == StoreName(n7, "h0", a.h0)
        n9 == StoreName(n8, "T", a.T)
    IN  StoreName(n9, "g", a.g)

\* a faulty variant of KUpdate: the depreciated stock is taken from index 0
KUpdateFromInitial(gl, lo, hp) ==
    LET L(nm) == LoadName(gl, lo, nm)
        karr == hp[L("k")]
        harr == hp[L("h")]
        t == L("t")
    IN  Div(Add(Mul(Mul(L("s_K"), Pow(GetItem(karr, t - 1), L("alpha"))),
                    Pow(GetItem(harr, t - 1), L("phi"))),
                Mul(Sub(One, L("delta")), GetItem(karr, 0))),
            Add(Add(One, L("n")), L("g")))

\* right-hand side of line 93
KUpdate(gl, lo, hp) ==
    LET L(nm) == LoadName(gl, lo, nm)
        karr == hp[L("k")]
        harr == hp[L("h")]
        t == L("t")
    IN  Div(Add(Mul(Mul(L("s_K"), Pow(GetItem(karr, t - 1), L("alpha"))),
                    Pow(GetItem(harr, t - 1), L("phi"))),
                Mul(Sub(One, L("delta")), GetItem(karr, t - 1))),
            Add(Add(One, L("n")), L("g")))

\* a faulty variant of HUpdate: production uses the k[t] written by line 93
HUpdateReadsNewK(gl, lo, hp) ==
    LET L(nm) == LoadName(gl, lo, nm)
        karr == hp[L("k")]
        harr == hp[L("h")]
        t == L("t")
    IN  Div(Add(Mul(Mul(L("s_H"), Pow(GetItem(karr, t), L("alpha"))),
                    Pow(GetItem(harr, t - 1), L("phi"))),
                Mul(Sub(One, L("delta")), GetItem(harr, t - 1))),
            Add(Add(One, L("n")), L("g")))

\* right-hand side of line 94
HUpdate(gl, lo, hp) ==
    LET L(nm) == LoadName(gl, lo, nm)
        karr == hp[L("k")]
        harr == hp[L("h")]
        t == L("t")
    IN  Div(Add(Mul(Mul(L("s_H"), Pow(GetItem(karr, t - 1), L("alpha"))),
                    Pow(GetItem(harr, t - 1), L("phi"))),
                Mul(Sub(One, L("delta")), GetItem(harr, t - 1))),
            Add(Add(One, L("n")), L("g")))

\* the arrays the caller still holds
HeldIds == IF held.valid THEN {held.k, held.h} ELSE {}

\* the frame of a call that raised is unwound and its arrays are released
Raise(kind) ==
    /\ pc' = "error"
    /\ err' = kind
    /\ locals' = NoLocals
    /\ heap' = [a \in HeldIds |-> heap[a]]
    /\ wcount' = NoWrites
    /\ UNCHANGED <<globals, iter, call, held, symret>>

\* capital is called with the arguments a, line 65
capital_call(a) ==
    /\ pc \in Quiescent
    /\ LET ns == BindParameters(globals, a)
       IN  /\ globals' = ns.gl
           /\ locals' = ns.lo
    /\ call' = a
    /\ pc' = "alloc"
    /\ err' = "none"
    /\ iter' = 0
    /\ wcount' = NoWrites
    /\ UNCHANGED <<heap, held, symret>>

\* k = np.zeros(T); h = np.zeros(T), lines 87-88
capital_alloc ==
    /\ pc = "alloc"
    /\ LET T == LoadName(globals, locals, "T")
       IN  IF T < 0
           THEN Raise("ValueError")
           ELSE LET kid == FreshId(heap)
                    hp1 == (kid :> Zeros(T)) @@ heap
                    n1 == StoreName([gl |-> globals, lo |-> locals], "k", kid)
                    hid == FreshId(hp1)
                    hp2 == (hid :> Zeros(T)) @@ hp1
                    n2 == StoreName(n1, "h", hid)
                IN  /\ heap' = hp2
                    /\ globals' = n2.gl
                    /\ locals' = n2.lo
                    /\ wcount' = [k |-> [x \in 1..T |-> 0], h |-> [x \in 1..T |-> 0]]
                    /\ pc' = "init"
                    /\ UNCHANGED <<err, iter, call, held, symret>>

\* k[0] = k0; h[0] = h0, lines 89-90, and the iterator of line 92 is created
capital_init ==
    /\ pc = "init"
    /\ LET L(nm) == LoadName(globals, locals, nm)
           kid == L("k")
           hid == L("h")
       IN  IF ~IndexOK(Len(heap[kid]), 0)
           THEN Raise("IndexError")
           ELSE LET hp1 == [heap EXCEPT ![kid] = SetItem(@, 0, L("k0"))]
                IN  IF ~IndexOK(Len(hp1[hid]), 0)
                    THEN Raise("IndexError")
                    ELSE /\ heap' = [hp1 EXCEPT ![hid] = SetItem(@, 0, L("h0"))]
                         /\ iter' = RangeStart
                         /\ pc' = "loop"
                         /\ UNCHANGED <<globals, locals, err, wcount, call, held, symret>>

\* one iteration of the loop, lines 92-94
capital_loop ==
    /\ pc = "loop"
    /\ iter < LoadName(globals, locals, "T")
    /\ LET n1 == StoreName([gl |-> globals, lo |-> locals], "t", iter)
           t == LoadName(n1.gl, n1.lo, "t")
           kid == LoadName(n1.gl, n1.lo, "k")
           hid == LoadName(n1.gl, n1.lo, "h")
           hp1 == [heap EXCEPT ![kid] = SetItem(@, t, KUpdate(n1.gl, n1.lo, heap))]
           hp2 == [hp1 EXCEPT ![hid] = SetItem(@, t, HUpdate(n1.gl, n1.lo, hp1))]
       IN  /\ heap' = hp2
           /\ globals' = n1.gl
           /\ locals' = n1.lo
           /\ wcount' = [k |-> [wcount.k EXCEPT ![Pos(Len(heap[kid]), t)] = @ + 1],
                         h |-> [wcount.h EXCEPT ![Pos(Len(heap[hid]), t)] = @ + 1]]
    /\ iter' = iter + 1
    /\ UNCHANGED <<pc, err, call, held, symret>>

\* return k, h, line 96: the caller keeps this result and drops the one before
capital_return ==
    /\ pc = "loop"
    /\ iter >= LoadName(globals, locals, "T")
    /\ LET kid == LoadName(globals, locals, "k")
           hid == LoadName(globals, locals, "h")
       IN  /\ held' = [valid |-> TRUE, args |-> call, k |-> kid, h |-> hid,
                       kval |-> heap[kid], hval |-> heap[hid]]
           /\ heap' = [a \in {kid, hid} |-> heap[a]]
    /\ locals' = NoLocals
    /\ pc' = "returned"
    /\ UNCHANGED <<globals, err, iter, wcount, call, symret>>

---------------------------------------------------------------------------
(* nullclines(param), lines 19-44, and aevaluation(x), lines 46-63.        *)
(* A sympy expression is the tree <<operator, operand, operand>>; its       *)
(* leaves are the objects the names of the body are bound to.               *)

ELit(lit) == <<"Integer", lit>>
EAdd(a, b) == <<"Add", a, b>>
ESub(a, b) == <<"Sub", a, b>>
EMul(a, b) == <<"Mul", a, b>>
EDiv(a, b) == <<"Div", a, b>>
EPow(a, b) == <<"Pow", a, b>>
Eq(a, b) == <<"Eq", a, b>>

NoSymbolic == [fn |-> "none", value |-> <<>>]

\* lines 31-42 evaluated in the frame lo of nullclines
NullclinesValue(gl, lo) ==
    LET L(nm) == LoadName(gl, lo, nm)
        growth == EMul(EAdd(ELit("1"), L("n")), EAdd(ELit("1"), L("g")))
        y == EMul(EPow(L("k"), L("alpha")), EPow(L("h"), L("phi")))
        trans_k == Eq(L("k"), EDiv(EAdd(EMul(L("s_K"), y),
                                        EMul(ESub(ELit("1"), L("delta")), L("k"))), growth))
        trans_h == Eq(L("h"), EDiv(EAdd(EMul(L("s_H"), y),
                                        EMul(ESub(ELit("1"), L("delta")), L("h"))), growth))
        Delta_k == ESub(trans_k[2], trans_k[3])
        Delta_h == ESub(trans_h[2], trans_h[3])
        zero_k == Eq(ELit("0"), Delta_k)
        zero_h == Eq(ELit("0"), Delta_h)
    IN  <<<<"solve", zero_k, L("h")>>, <<"solve", zero_h, L("h")>>>>

\* lines 56-61 evaluated in the frame lo of aevaluation
AevaluationValue(gl, lo) ==
    LET L(nm) == LoadName(gl, lo, nm)
        denom == EAdd(EAdd(EAdd(L("n"), L("g")), L("delta")), EMul(L("n"), L("g")))
        expo == EDiv(ELit("1"), ESub(ESub(ELit("1"), L("alpha")), L("phi")))
        kss == EPow(EDiv(EMul(EPow(L("s_K"), ESub(ELit("1"), L("phi"))),
                              EPow(L("s_H"), L("phi"))), denom), expo)
        hss == EPow(EDiv(EMul(EPow(L("s_K"), L("alpha")),
                              EPow(L("s_H"), ESub(ELit("1"), L("alpha")))), denom), expo)
        signature == <<L("s_K"), L("s_H"), L("g"), L("n"), L("delta"), L("phi"), L("alpha")>>
    IN  <<<<"lambdify", signature, kss>>, <<"lambdify", signature, hss>>>>

\* a call nullclines(param) from the module, between calls of capital
nullclines ==
    /\ pc \in Quiescent
    /\ LET ns == StoreName([gl |-> globals, lo |-> NoLocals], "param", globals["param"])
       IN  /\ symret' = [fn |-> "nullclines", value |-> NullclinesValue(ns.gl, ns.lo)]
           /\ globals' = ns.gl
    /\ UNCHANGED <<locals, heap, pc, err, iter, wcount, call, held>>

\* a call aevaluation(x) from the module, between calls of capital
aevaluation ==
    /\ pc \in Quiescent
    /\ LET ns == StoreName([gl |-> globals, lo |-> NoLocals], "x", globals["param"])
       IN  /\ symret' = [fn |-> "aevaluation", value |-> AevaluationValue(ns.gl, ns.lo)]
           /\ globals' = ns.gl
    /\ UNCHANGED <<locals, heap, pc, err, iter, wcount, call, held>>

\* the exponent 1/(1-alpha-phi) of lines 56-57, as a float64 value
SteadyExponent(a) == Div(One, Q(1 - a.alpha - a.phi, 1))

\* n+g+delta+n*g, lines 56-57
SteadyDenominator(a) == Add(Add(Add(a.n, a.g), a.delta), Mul(a.n, a.g))

\* kss_func(s_K, s_H, g, n, delta, phi, alpha), lines 56 and 60; the power
\* is exact when the exponent 1/(1-alpha-phi) is an integer
kss_func(a) ==
    Pow(Div(Mul(Pow(a.s_K, 1 - a.phi), Pow(a.s_H, a.phi)), SteadyDenominator(a)),
        SteadyExponent(a)[1])

\* hss_func(s_K, s_H, g, n, delta, phi, alpha), lines 57 and 61
hss_func(a) ==
    Pow(Div(Mul(Pow(a.s_K, a.alpha), Pow(a.s_H, 1 - a.alpha)), SteadyDenominator(a)),
        SteadyExponent(a)[1])

---------------------------------------------------------------------------
(* figure1(gdp, nber, start, end), lines 10-58, and                        *)
(* figure2(yield_curves, nber, start, end), lines 60-99: recession shading  *)

NoFigure == [fn |-> "none", at |-> "none"]

\* alpha=0.2, color='gray' and alpha=1, color='white'
GrayAlpha == Q(1, 5)
WhiteAlpha == One

\* the axes the shading loop of a figure draws on
Axes(fn) == IF fn = "figure1" THEN <<"fig1", "fig1_2">> ELSE <<"fig2">>

\* ax.axvspan(xmin, xmax, alpha=alpha, color=color), called in iteration obs
Span(ax, xmin, xmax, alpha, color, obs) ==
    [ax |-> ax, xmin |-> xmin, xmax |-> xmax, alpha |-> alpha, color |-> color, obs |-> obs]

\* the body of the shading loop for the value j of i: lines 46-51, 94-97
ShadeBody(fn, df, j) ==
    LET flag == df.USREC[j + 1]
        xmin == GetItem(df.index, j - 1)
        xmax == GetItem(df.index, j)
        gray == IF flag = 1
                THEN [x \in DOMAIN Axes(fn) |->
                        Span(Axes(fn)[x], xmin, xmax, GrayAlpha, "gray", j)]
                ELSE <<>>
        white == IF flag = 0
                 THEN [x \in DOMAIN Axes(fn) |->
                         Span(Axes(fn)[x], xmin, xmax, WhiteAlpha, "white", j)]
                 ELSE <<>>
    IN  gray \o white

\* a figure function is called with the frame df; the plots before the loop
\* draw no span
figure_call(fn, df) ==
    /\ fig = NoFigure
    /\ fig' = [fn |-> fn, at |-> "shade"]
    /\ nber' = df
    /\ i' = 0
    /\ spans' = <<>>

figure1_call(df) == figure_call("figure1", df)
figure2_call(df) == figure_call("figure2", df)

\* one iteration of for i in range(len(nber)), lines 45-51
figure1_shade ==
    /\ fig = [fn |-> "figure1", at |-> "shade"]
    /\ i < Len(nber.USREC)
    /\ spans' = spans \o ShadeBody("figure1", nber, i)
    /\ i' = i + 1
    /\ UNCHANGED <<fig, nber>>

\* one iteration of for i in range(len(nber)), lines 93-97
figure2_shade ==
    /\ fig = [fn |-> "figure2", at |-> "shade"]
    /\ i < Len(nber.USREC)
    /\ spans' = spans \o ShadeBody("figure2", nber, i)
    /\ i' = i + 1
    /\ UNCHANGED <<fig, nber>>

\* the loop is exhausted; plt.show(), lines 53-58 and 98-99
figure_show ==
    /\ fig.at = "shade"
    /\ i >= Len(nber.USREC)
    /\ fig' = [fig EXCEPT !.at = "shown"]
    /\ UNCHANGED <<nber, i, spans>>

---------------------------------------------------------------------------
(* Arguments *)

Horizons == {-1} \cup (0..MaxT)
\* alpha and phi: small integers, so that the exact powers stay within
\* TLC's integers over MaxT periods
Exponents == {0, 1, 2}

Args ==
    {a \in [s_K : {Zero, Q(1, 2)}, s_H : {Zero, Q(1, 2)}, n : {Q(-1, 1), Zero},
            delta : {Zero, Q(1, 2), One}, alpha : Exponents, phi : Exponents,
            k0 : {Zero, One, Q(2, 1)}, h0 : {Q(-1, 1), One}, T : Horizons, g : {Zero, One}] :
        a.alpha + a.phi <= MaxDegree}

InitCapital ==
    /\ globals = ModuleNamespace
    /\ locals = NoLocals
    /\ heap = [a \in {} |-> <<>>]
    /\ pc = "idle"
    /\ err = "none"
    /\ iter = 0
    /\ wcount = NoWrites
    /\ call = NoArgs
    /\ held = NoResult
    /\ symret = NoSymbolic

InitFigure ==
    /\ fig = NoFigure
    /\ nber = [index |-> <<>>, USREC |-> <<>>]
    /\ i = 0
    /\ spans = <<>>

Init == InitCapital /\ InitFigure

\* one call of capital on any arguments
Next ==
    \/ pc = "idle" /\ (\E a \in Args : capital_call(a)) /\ UNCHANGED figureVars
    \/ capital_alloc /\ UNCHANGED figureVars
    \/ capital_init /\ UNCHANGED figureVars
    \/ capital_loop /\ UNCHANGED figureVars
    \/ capital_return /\ UNCHANGED figureVars

Spec == Init /\ [][Next]_vars

\* arguments of the runs that follow one another
SeqArgs ==
    [s_K : {Zero, Q(1, 2)}, s_H : {Zero, Q(1, 2)}, n : {Zero},
     delta : {Q(1, 2)}, alpha : {1}, phi : {0},
     k0 : {One, Q(2, 1)}, h0 : {One, Q(2, 1)}, T : 0..MaxT, g : {Zero}]

\* calls of capital, nullclines and aevaluation one after the other
NextCalls ==
    \/ pc \in Quiescent /\ (\E a \in SeqArgs : capital_call(a)) /\ UNCHANGED figureVars
    \/ capital_alloc /\ UNCHANGED figureVars
    \/ capital_init /\ UNCHANGED figureVars
    \/ capital_loop /\ UNCHANGED figureVars
    \/ capital_return /\ UNCHANGED figureVars
    \/ nullclines /\ UNCHANGED figureVars
    \/ aevaluation /\ UNCHANGED figureVars

SpecCalls == Init /\ [][NextCalls]_vars

\* parameters for which lines 56-57 are defined and exact: a positive
\* denominator, positive savings rates and an integer exponent
SteadyDefined(a) ==
    /\ a.alpha + a.phi # 1
    /\ SteadyExponent(a)[2] = 1
    /\ IsFinite(SteadyDenominator(a)) /\ SteadyDenominator(a)[1] > 0
    /\ a.s_K[1] > 0 /\ a.s_H[1] > 0

SteadyParams ==
    {a \in [s_K : {Q(1, 2), One}, s_H : {Q(1, 2), One}, n : {Zero, Q(1, 2)},
            delta : {Q(1, 2), One}, alpha : Exponents, phi : Exponents,
            k0 : {Zero}, h0 : {Zero}, T : 1..MaxT, g : {Zero, Q(1, 2)}] : SteadyDefined(a)}

\* capital(s_K, s_H, n, delta, alpha, phi, kss_func(...), hss_func(...), T, g)
capital_call_steady(p) ==
    capital_call([p EXCEPT !.k0 = kss_func(p), !.h0 = hss_func(p)])

\* one call of capital that starts in the steady state of aevaluation
NextSteady ==
    \/ aevaluation /\ UNCHANGED figureVars
    \/ /\ pc = "idle"
       /\ symret.fn = "aevaluation"
       /\ \E p \in SteadyParams : capital_call_steady(p)
       /\ UNCHANGED figureVars
    \/ capital_alloc /\ UNCHANGED figureVars
    \/ capital_init /\ UNCHANGED figureVars
    \/ capital_loop /\ UNCHANGED figureVars
    \/ capital_return /\ UNCHANGED figureVars

SpecSteady == Init /\ [][NextSteady]_vars

\* strictly increasing sequences of observation dates
DateIndexes ==
    {s \in UNION {[1..m -> 1..MaxDate] : m \in 0..MaxDate} :
        \A a, b \in DOMAIN s : a < b => s[a] < s[b]}

\* the nber frames: a date index and a binary USREC column of its length
Frames ==
    UNION {{[index |-> s, USREC |-> u] : u \in [DOMAIN s -> {0, 1}]} : s \in DateIndexes}

\* one call of figure1 or figure2
NextFigure ==
    \/ fig = NoFigure /\ (\E df \in Frames : figure1_call(df)) /\ UNCHANGED capitalVars
    \/ fig = NoFigure /\ (\E df \in Frames : figure2_call(df)) /\ UNCHANGED capitalVars
    \/ figure1_shade /\ UNCHANGED capitalVars
    \/ figure2_shade /\ UNCHANGED capitalVars
    \/ figure_show /\ UNCHANGED capitalVars

SpecFigure == Init /\ [][NextFigure]_vars

---------------------------------------------------------------------------
(* The arrays of the call under way, or of the call that has just returned *)

HasArrays == pc \in {"init", "loop", "returned"}
KArr == IF pc = "returned" THEN heap[held.k] ELSE heap[locals["k"]]
HArr == IF pc = "returned" THEN heap[held.h] ELSE heap[locals["h"]]

\* the divisor 1+n+g of the arguments a
Divisor(a) == Add(Add(One, a.n), a.g)

\* the update rule as a function of the arguments a and the previous pair
RuleK(a, kp, hp) ==
    Div(Add(Mul(Mul(a.s_K, Pow(kp, a.alpha)), Pow(hp, a.phi)), Mul(Sub(One, a.delta), kp)),
        Divisor(a))

RuleH(a, kp, hp) ==
    Div(Add(Mul(Mul(a.s_H, Pow(kp, a.alpha)), Pow(hp, a.phi)), Mul(Sub(One, a.delta), hp)),
        Divisor(a))

\* the pair <<k, h>> of sequences of length len >= 1 the rule generates
RECURSIVE Trajectory(_, _)
Trajectory(a, len) ==
    IF len <= 1 THEN <<<<a.k0>>, <<a.h0>>>>
    ELSE LET prev == Trajectory(a, len - 1)
             kp == prev[1][len - 1]
             hp == prev[2][len - 1]
         IN  <<Append(prev[1], RuleK(a, kp, hp)), Append(prev[2], RuleH(a, kp, hp))>>

\* the seven model parameters of two calls agree
SameParams(a, b) ==
    /\ a.s_K = b.s_K /\ a.s_H = b.s_H /\ a.n = b.n /\ a.delta = b.delta
    /\ a.alpha = b.alpha /\ a.phi = b.phi /\ a.g = b.g

---------------------------------------------------------------------------
(* Claims checked under Spec *)

\* C1: every entry the loop has written satisfies
\*   k[t] = (s_K*k[t-1]^alpha*h[t-1]^phi + (1-delta)*k[t-1]) / (1+n+g)
\*   h[t] = (s_H*k[t-1]^alpha*h[t-1]^phi + (1-delta)*h[t-1]) / (1+n+g)
\* with the previous period's k[t-1] in both (sequence position t is index t-1).
C1_UpdateRule ==
    pc \in {"loop", "returned"} =>
        \A t \in 1..(iter - 1) :
            /\ KArr[t + 1] = RuleK(call, KArr[t], HArr[t])
            /\ HArr[t + 1] = RuleH(call, KArr[t], HArr[t])

\* a returned run of three periods in which k moves and k enters h's update
C1_Witness ==
    /\ pc = "returned"
    /\ call.T >= 3
    /\ call.s_H # Zero
    /\ call.alpha >= 1
    /\ call.phi >= 1
    /\ IsFinite(KArr[3]) /\ IsFinite(HArr[3])
    /\ KArr[1] # KArr[2]
    /\ KArr[2] # KArr[3]
    /\ HArr[2] # Zero

\* C2: for T = 1 capital returns [k0] and [h0] and runs no update step,
\* whatever the other arguments are (1+n+g = 0 included).
C2_SinglePeriod ==
    (pc = "returned" /\ call.T = 1) =>
        /\ KArr = <<call.k0>>
        /\ HArr = <<call.h0>>
        /\ wcount = [k |-> <<0>>, h |-> <<0>>]
        /\ iter = 1

\* a returned call with T = 1 and 1+n+g = 0
C2_Witness ==
    /\ pc = "returned"
    /\ call.T = 1
    /\ Divisor(call) = Zero
    /\ call.s_K # Zero
    /\ call.k0 # Zero

\* C3: both arrays have length T throughout, index 0 holds the initial
\* condition from line 89/90 on, the loop stores to each index at most once
\* and never to index 0, and at the return each index 1..T-1 was stored once.
C3_LengthAndWrites ==
    /\ HasArrays => (Len(KArr) = call.T /\ Len(HArr) = call.T)
    /\ pc \in {"loop", "returned"} =>
        /\ KArr[1] = call.k0
        /\ HArr[1] = call.h0
        /\ wcount.k = [x \in 1..call.T |-> IF 2 <= x /\ x <= iter THEN 1 ELSE 0]
        /\ wcount.h = [x \in 1..call.T |-> IF 2 <= x /\ x <= iter THEN 1 ELSE 0]
    /\ pc = "returned" => iter = call.T

\* a returned call of three periods or more
C3_Witness ==
    /\ pc = "returned"
    /\ call.T >= 3
    /\ wcount.k[3] = 1
    /\ KArr[3] # call.k0

\* C6 as claimed: with 1+n+g = 0 and T >= 2 a call never returns arrays,
\* it ends in an error.
C6_DivisionByZeroRaises ==
    (pc \in {"returned", "error"} /\ Divisor(call) = Zero /\ call.T >= 2) => pc = "error"

\* C6 amended: with 1+n+g = 0 and T >= 2 the call raises nothing; it returns
\* arrays of length T with k[0] = k0, h[0] = h0 and every later entry
\* non-finite (inf, -inf or nan), the quotient numpy computes.
C6_DivisionByZeroGivesNonFinite ==
    (Divisor(call) = Zero /\ call.T >= 2) =>
        /\ pc # "error"
        /\ pc \in {"loop", "returned"} =>
            /\ KArr[1] = call.k0
            /\ HArr[1] = call.h0
            /\ \A x \in 2..iter : ~IsFinite(KArr[x]) /\ ~IsFinite(HArr[x])
        /\ pc = "returned" => (Len(KArr) = call.T /\ Len(HArr) = call.T /\ iter = call.T)

\* a returned call with 1+n+g = 0 whose k is inf and whose h is nan
C6_Witness ==
    /\ pc = "returned"
    /\ Divisor(call) = Zero
    /\ call.T >= 2
    /\ IsInf(KArr[2])
    /\ IsNaN(HArr[2])

\* C10: a call with T <= 0 never reaches the loop and never returns: T < 0
\* fails in np.zeros (ValueError), T = 0 in the store to index 0
\* (IndexError); so every return has T >= 1.
C10_NoReturnForEmptyHorizon ==
    /\ (pc # "idle" /\ call.T < 0) => pc \in {"alloc", "error"}
    /\ (pc # "idle" /\ call.T = 0) => pc \in {"alloc", "init", "error"}
    /\ (pc # "idle" /\ call.T <= 0) => iter = 0
    /\ (pc = "error" /\ call.T < 0) => err = "ValueError"
    /\ (pc = "error" /\ call.T = 0) => err = "IndexError"
    /\ pc = "returned" => call.T >= 1

\* a call with T = 0 that ended in the IndexError of line 89
C10_Witness ==
    /\ pc = "error"
    /\ call.T = 0
    /\ err = "IndexError"
    /\ iter = 0

---------------------------------------------------------------------------
(* Claims checked under SpecCalls *)

\* C4: (k[t], h[t]) depends on the parameters and on (k[t-1], h[t-1]) only:
\* two steps with the same parameters and the same previous pair store the
\* same pair, whether they are steps of one run or of two runs that differ
\* in k0, h0, T and in the position t.
C4_PreviousStepOnly ==
    pc = "loop" =>
        /\ \A t1, t2 \in 1..(iter - 1) :
            (KArr[t1] = KArr[t2] /\ HArr[t1] = HArr[t2]) =>
                (KArr[t1 + 1] = KArr[t2 + 1] /\ HArr[t1 + 1] = HArr[t2 + 1])
        /\ (held.valid /\ SameParams(held.args, call)) =>
            \A t1 \in 1..(held.args.T - 1), t2 \in 1..(iter - 1) :
                (heap[held.k][t1] = KArr[t2] /\ heap[held.h][t1] = HArr[t2]) =>
                    (heap[held.k][t1 + 1] = KArr[t2 + 1] /\ heap[held.h][t1 + 1] = HArr[t2 + 1])

\* two runs with the same parameters, other k0 and T, that pass through the
\* same pair at different positions, with different entries before it
C4_Witness ==
    /\ pc = "loop"
    /\ held.valid
    /\ SameParams(held.args, call)
    /\ held.args.k0 # call.k0
    /\ held.args.T # call.T
    /\ \E t1 \in 2..(held.args.T - 1), t2 \in 1..(iter - 1) :
        /\ t1 # t2
        /\ heap[held.k][t1] = KArr[t2]
        /\ heap[held.h][t1] = HArr[t2]
        /\ heap[held.k][t1 - 1] # KArr[t2]
        /\ KArr[t2 + 1] # KArr[t2]

\* C7: no mutable state is shared across calls: the module namespace keeps
\* its symbols although parameters and locals of capital shadow their
\* names, the arrays of a call are new objects, a result the caller holds
\* is not changed by later calls, and the result is a function of the
\* arguments alone, whatever calls came before.
C7_NoSharedState ==
    /\ DOMAIN globals = DOMAIN ModuleNamespace
    /\ globals = ModuleNamespace
    /\ pc \in {"init", "loop"} =>
        /\ locals["k"] # locals["h"]
        /\ {locals["k"], locals["h"]} \cap HeldIds = {}
    /\ held.valid =>
        /\ HeldIds \subseteq DOMAIN heap
        /\ heap[held.k] = held.kval
        /\ heap[held.h] = held.hval
        /\ <<held.kval, held.hval>> = Trajectory(held.args, held.args.T)
    /\ (pc = "loop" /\ iter >= call.T /\ held.valid /\ held.args = call) =>
        (KArr = held.kval /\ HArr = held.hval)

\* the same call made again, after another call of capital's result was
\* held and a symbolic call was made, at the end of its loop
C7_Witness ==
    /\ pc = "loop"
    /\ iter >= call.T
    /\ call.T >= 3
    /\ held.valid
    /\ held.args = call
    /\ held.k > 2
    /\ symret.fn = "nullclines"
    /\ KArr[3] # KArr[1]

---------------------------------------------------------------------------
(* Claims checked under SpecSteady *)

\* C8: started at k0 = kss, h0 = hss, every entry of k equals kss and every
\* entry of h equals hss.
C8_SteadyStateIsFixedPoint ==
    pc \in {"loop", "returned"} =>
        \A x \in 1..iter : KArr[x] = kss_func(call) /\ HArr[x] = hss_func(call)

---------------------------------------------------------------------------
(* Claims checked under SpecFigure *)

\* the spans drawn for observation j on the axis ax
SpansOf(j, ax) == {x \in DOMAIN spans : spans[x].obs = j /\ spans[x].ax = ax}

\* the dates of the index
Dates == {nber.index[x] : x \in DOMAIN nber.index}

\* C9: every observation handled so far has exactly one span per axis, gray
\* with alpha 0.2 for USREC = 1 and white with alpha 1 for USREC = 0, and
\* every span runs from an observation date to the next observation date,
\* the one of its observation, also for the first observation.
C9_SpansCoverOneInterval ==
    fig.fn # "none" =>
        /\ \A j \in 0..(i - 1) : \A a \in DOMAIN Axes(fig.fn) :
            /\ Cardinality(SpansOf(j, Axes(fig.fn)[a])) = 1
            /\ \A x \in SpansOf(j, Axes(fig.fn)[a]) :
                /\ nber.USREC[j + 1] = 1 => (spans[x].color = "gray" /\ spans[x].alpha = GrayAlpha)
                /\ nber.USREC[j + 1] = 0 => (spans[x].color = "white" /\ spans[x].alpha = WhiteAlpha)
        /\ \A x \in DOMAIN spans :
            /\ spans[x].xmax = nber.index[spans[x].obs + 1]
            /\ spans[x].xmin \in Dates
            /\ spans[x].xmin < spans[x].xmax
            /\ ~\E d \in Dates : spans[x].xmin < d /\ d < spans[x].xmax

===========================================================================
